---- MODULE Spec2Model ----
(***************************************************************************)
(* Model of filter/polar_score.py: the surface polarity scorer             *)
(* (calculate_surface_polar_score and its helpers), the batch driver       *)
(* filter_pdbs_by_polar_score and the main block with its command line;    *)
(* and of filter/fasta_rename.py.                                          *)
(*                                                                         *)
(* Floating point numbers are modelled in fixed point: the integer x       *)
(* stands for x / Scale.  Coordinates are in nanometres (mdtraj's unit),   *)
(* so the point <<400, 0, 0>> is 0.4 nm from the origin.  NaN is a value   *)
(* of its own that every arithmetic operation propagates, as IEEE 754      *)
(* does.                                                                   *)
(***************************************************************************)
EXTENDS Integers, Sequences, FiniteSets, TLC

\* ------------------------------------------------------------------------
\* Bounds of the model
\* ------------------------------------------------------------------------
MaxRes == 3

MaxPermute == 2

MaxCalls == 3

MaxClassify == 2

MaxLines == 4

MaxRewrites == 2

AngleSteps == 12

\* ------------------------------------------------------------------------
\* Fixed-point arithmetic
\* ------------------------------------------------------------------------
Scale == 1000

\* The IEEE not-a-number, produced by 0/0.
NaN == -1000000000

\* math.pi
Pi == 3142

\* m, a, b of calculate_surface_polar_score
m == 1000
a == 500
b == 2

IsNaN(x) == x = NaN

\* x / y rounded to the nearest integer, y > 0 (round half away from zero).
RDiv(x, y) == IF x >= 0 THEN (2 * x + y) \div (2 * y)
                        ELSE -((2 * (-x) + y) \div (2 * y))

FAdd(x, y) == IF IsNaN(x) \/ IsNaN(y) THEN NaN ELSE x + y

FSub(x, y) == IF IsNaN(x) \/ IsNaN(y) THEN NaN ELSE x - y

FMul(x, y) == IF IsNaN(x) \/ IsNaN(y) THEN NaN ELSE RDiv(x * y, Scale)

\* x / y of two floats; 0/0 is NaN.  (No caller divides a nonzero number by 0.)
FDiv(x, y) == IF IsNaN(x) \/ IsNaN(y) \/ y = 0 THEN NaN
              ELSE IF y > 0 THEN RDiv(x * Scale, y) ELSE RDiv(-(x * Scale), -y)

RECURSIVE SqrtSearch(_, _, _)
SqrtSearch(n, lo, hi) ==
    IF lo >= hi THEN lo
    ELSE LET mid == (lo + hi + 1) \div 2
         IN  IF mid * mid <= n THEN SqrtSearch(n, mid, hi)
                               ELSE SqrtSearch(n, lo, mid - 1)

\* floor(sqrt(n)) for 0 <= n
ISqrt(n) == SqrtSearch(n, 0, 46340)

Square(x) == RDiv(x * x, Scale)

\* exp(-y) for y >= 0: a Taylor polynomial below 1/8, halving above it.
ExpTaylor(y) ==
    LET y2 == RDiv(y * y, Scale)
        y3 == RDiv(y2 * y, Scale)
        y4 == RDiv(y3 * y, Scale)
    IN  Scale - y + RDiv(y2, 2) - RDiv(y3, 6) + RDiv(y4, 24)

RECURSIVE ExpNeg(_)
ExpNeg(y) ==
    IF y <= Scale \div 8 THEN ExpTaylor(y)
    ELSE IF y > 16 * Scale THEN 0
    ELSE LET sq == Square(ExpNeg(y \div 2))
         IN  IF y % 2 = 1 THEN RDiv(sq * ExpTaylor(1), Scale) ELSE sq

\* 1 / (1 + exp(x)); exp(x) overflowing to inf gives 0.
Recip1pExp(x) ==
    IF IsNaN(x) THEN NaN
    ELSE IF x <= 0 THEN RDiv(Scale * Scale, Scale + ExpNeg(-x))
    ELSE LET e == ExpNeg(x) IN RDiv(Scale * e, Scale + e)

\* torch.sigmoid
Sigmoid(x) == IF IsNaN(x) THEN NaN ELSE Recip1pExp(-x)

\* cos on [0, pi/2] by its Taylor polynomial
CosTaylor(x) ==
    LET x2 == RDiv(x * x, Scale)
        t1 == RDiv(x2, 2)
        t2 == RDiv(t1 * x2, 12 * Scale)
        t3 == RDiv(t2 * x2, 30 * Scale)
        t4 == RDiv(t3 * x2, 56 * Scale)
        t5 == RDiv(t4 * x2, 90 * Scale)
    IN  Scale - t1 + t2 - t3 + t4 - t5

\* torch.cos on [0, pi]
Cos(x) ==
    IF IsNaN(x) THEN NaN
    ELSE IF 2 * x <= Pi THEN CosTaylor(x)
    ELSE -CosTaylor(Pi - x)

RECURSIVE ACosSearch(_, _, _)
ACosSearch(c, lo, hi) ==
    IF lo >= hi THEN lo
    ELSE LET mid == (lo + hi) \div 2
         IN  IF Cos(mid) <= c THEN ACosSearch(c, lo, mid)
                              ELSE ACosSearch(c, mid + 1, hi)

\* torch.acos on [-1, 1]: for c >= 0 the least angle whose cosine is at most c,
\* for c < 0 by acos(c) = pi - acos(-c)
ACos(c) ==
    IF IsNaN(c) THEN NaN
    ELSE IF c >= 0 THEN ACosSearch(c, 0, Pi)
    ELSE Pi - ACosSearch(-c, 0, Pi)

\* torch.clamp(x, lo, hi); NaN stays NaN
Clamp(x, lo, hi) ==
    IF IsNaN(x) THEN NaN ELSE IF x < lo THEN lo ELSE IF x > hi THEN hi ELSE x

RECURSIVE Pow(_, _)
Pow(x, n) == IF n = 0 THEN Scale ELSE FMul(x, Pow(x, n - 1))


\* ------------------------------------------------------------------------
\* State
\* ------------------------------------------------------------------------
VARIABLES
    \* one call of calculate_surface_polar_score
    file,            \* the PDB file on disk that is being scored
    traj,            \* the trajectory line 77 loaded
    CBs_dis,         \* the distance matrix
    non_polar,       \* the indicator vector of the NonPolar residues
    phi_ij,          \* the angle matrix
    polar,           \* the indicator vector of the Polar residues
    combined_weights, \* the masked product of the two weight matrices
    n_i,             \* the neighbor densities
    sigmoid_term,    \* the exposure terms
    denominator,     \* the sum of the exposure terms
    loads,           \* how many times the call has had md.load read the file
    rewrites,        \* how many times another process has rewritten the file
    result,          \* what the call returned
    pc,              \* where the call is
    rootLog,         \* error records logging.error (line 110) has written
    ref,             \* the result for the structure before its residues were permuted
    permutes,        \* permutations applied so far
    \* a process that calls the scorer several times
    calls,           \* the calls made so far: the file and what was returned
    \* filter_pdbs_by_polar_score
    design,          \* the design directory: file name -> file
    output,          \* the output directory: file name -> file
    polar_threshold, \* the threshold the caller passed
    pdb_files,       \* the listing of line 121
    idx,             \* position of the for loop in pdb_files
    total_files,
    passed_files,
    visited,         \* the loop's iterations so far: the name and the score
    log,             \* the records written to logger
    dpc,             \* where the driver is
    \* the angle weight on its own
    phi1, phi2,      \* two angles
    w1, w2,          \* their weights
    apc,
    \* fasta_rename.py
    rename_args,     \* the parsed options -i, -o, -p
    disk,            \* the files: path -> content
    original,        \* what the input file held when the run began
    file1,           \* how many characters file1 has read
    file2,           \* what has been written to file2 and not yet flushed
    prefix,
    rnpc,            \* where main is
    \* the command line of polar_score.py
    args,            \* the parsed options -d, -r, -p, -c
    mode,
    mpc              \* where the main block is

\* The locals of lines 93-103
weighVars == <<combined_weights, n_i, sigmoid_term, denominator>>

scorerVars == <<file, traj, CBs_dis, non_polar, phi_ij, result, pc, ref, permutes,
                polar, weighVars, loads, rewrites>>

callVars == <<calls>>

driverVars == <<design, output, polar_threshold, pdb_files, idx, total_files,
                passed_files, visited, log, dpc>>

angleVars == <<phi1, phi2, w1, w2, apc>>

renameVars == <<rename_args, disk, original, file1, file2, prefix, rnpc>>

cliVars == <<args, mode, mpc>>

vars == <<scorerVars, rootLog, callVars, driverVars, angleVars, renameVars, cliVars>>

\* ------------------------------------------------------------------------
\* Structures: what md.load reads from a PDB file
\* ------------------------------------------------------------------------
\* A residue without the atom has NoAtom in its place.
NoAtom == <<>>

Residue(name, resSeq, c, ca) == [name |-> name, resSeq |-> resSeq, C |-> c, CA |-> ca]

VAL == <<"V", "A", "L">>
LEU == <<"L", "E", "U">>
ILE == <<"I", "L", "E">>
SER == <<"S", "E", "R">>
LYS == <<"L", "Y", "S">>
HOH == <<"H", "O", "H">>

\* The residues the structures of the model are built from: complete residues
\* of the three polarity classes at different places and with different
\* CA->C directions, a residue whose CA and C coincide, residues that lack a
\* backbone atom, and residues "backbone and name C/CA" selects nothing of.
ResidueSet ==
    { Residue(VAL, <<"1">>, <<0, 0, 0>>,     <<-150, 0, 0>>),
      Residue(SER, <<"2">>, <<400, 0, 0>>,   <<550, 0, 0>>),
      Residue(LYS, <<"3">>, <<0, 400, 0>>,   <<0, 250, 0>>),
      Residue(LEU, <<"4">>, <<400, 300, 0>>, <<300, 200, 100>>),
      Residue(SER, <<"5">>, <<0, 0, 400>>,   <<0, 0, 400>>),
      Residue(LEU, <<"6">>, <<300, 0, 0>>,   NoAtom),
      Residue(SER, <<"7">>, NoAtom,          <<0, 300, 0>>),
      Residue(HOH, <<"8">>, NoAtom,          NoAtom),
      Residue(ILE, <<"9">>, NoAtom,          NoAtom) }

RECURSIVE SeqsUpTo(_, _)
SeqsUpTo(S, n) ==
    IF n = 0 THEN {<<>>}
    ELSE LET shorter == SeqsUpTo(S, n - 1)
         IN  shorter \cup {Append(s, x) : s \in shorter, x \in S}

\* A file md.load parses (ok, with its residues in file order), or one it
\* raises on.
PdbFile(residues) == [ok |-> TRUE, residues |-> residues]

Unparseable == [ok |-> FALSE, residues |-> <<>>]

Structures == {PdbFile(rs) : rs \in SeqsUpTo(ResidueSet, MaxRes) \ {<<>>}}

PdbFiles == Structures \cup {Unparseable}

\* ------------------------------------------------------------------------
\* The scorer's helpers
\* ------------------------------------------------------------------------
HasC(r) == r.C # NoAtom

HasCA(r) == r.CA # NoAtom

\* traj.xyz[0, top.select("backbone and name C")]
SelectC(residues) ==
    LET rs == SelectSeq(residues, HasC) IN [i \in 1..Len(rs) |-> rs[i].C]

\* traj.xyz[0, top.select("backbone and name CA")]
SelectCA(residues) ==
    LET rs == SelectSeq(residues, HasCA) IN [i \in 1..Len(rs) |-> rs[i].CA]

RECURSIVE SumSeq(_)
SumSeq(s) == IF s = <<>> THEN 0 ELSE FAdd(Head(s), SumSeq(Tail(s)))

VSub(p, q) == [k \in 1..3 |-> FSub(p[k], q[k])]

\* torch.norm(v, p=2)
Norm(v) ==
    IF \E k \in 1..3 : IsNaN(v[k]) THEN NaN
    ELSE ISqrt(v[1] * v[1] + v[2] * v[2] + v[3] * v[3])

\* numpy's and torch's broadcasting of one dimension
Broadcastable(x, y) == x = y \/ x = 1 \/ y = 1

BroadcastLen(x, y) == IF x = 1 THEN y ELSE x

BcastAt(s, i) == IF Len(s) = 1 THEN s[1] ELSE s[i]

BcastAt2(mat, i, j) == IF Len(mat) = 1 THEN mat[1][1] ELSE mat[i][j]

calculate_backbone_neighbors(pdb_file) ==
    LET CBs_coords == SelectC(pdb_file.residues)
        n == Len(CBs_coords)
    IN  [i \in 1..n |-> [j \in 1..n |-> Norm(VSub(CBs_coords[i], CBs_coords[j]))]]

\* str(residue) without the slice
ResNameWhole(r) == r.name \o r.resSeq

\* str(residue)[:3]
ResName3(r) ==
    LET s == r.name \o r.resSeq
    IN  SubSeq(s, 1, IF Len(s) < 3 THEN Len(s) ELSE 3)

non_polar_residues ==
    { <<"I", "L", "E">>, <<"L", "E", "U">>, <<"M", "E", "T">>,
      <<"T", "R", "P">>, <<"P", "H", "E">>, <<"V", "A", "L">> }

polar_residues ==
    { <<"S", "E", "R">>, <<"T", "H", "R">>, <<"T", "Y", "R">>,
      <<"A", "S", "N">>, <<"G", "L", "N">> }

\* classify_polarity with the two lists taken for one another
classify_polarity_swapped(trj) ==
    LET residues == trj.residues
    IN  [non_polar |-> [i \in 1..Len(residues) |->
                          IF ResName3(residues[i]) \in polar_residues
                          THEN Scale ELSE 0],
         polar     |-> [i \in 1..Len(residues) |->
                          IF ResName3(residues[i]) \in polar_residues THEN 0
                          ELSE IF ResName3(residues[i]) \in non_polar_residues
                          THEN Scale ELSE 0]]

\* The two indicator vectors, as floats 0.0 and 1.0
classify_polarity(trj) ==
    LET residues == trj.residues
    IN  [non_polar |-> [i \in 1..Len(residues) |->
                          IF ResName3(residues[i]) \in non_polar_residues
                          THEN Scale ELSE 0],
         polar     |-> [i \in 1..Len(residues) |->
                          IF ResName3(residues[i]) \in non_polar_residues THEN 0
                          ELSE IF ResName3(residues[i]) \in polar_residues
                          THEN Scale ELSE 0]]

\* The matrix of angles between the CA->C directions, or the exception of
\* CBs_coords - CAs_coords on arrays that do not broadcast.
calculate_angles(trj) ==
    LET CBs_coords == SelectC(trj.residues)
        CAs_coords == SelectCA(trj.residues)
        nC  == Len(CBs_coords)
        nCA == Len(CAs_coords)
        k   == BroadcastLen(nC, nCA)
        CAs_CBs_coords == [i \in 1..k |->
                             VSub(BcastAt(CBs_coords, i), BcastAt(CAs_coords, i))]
        normalized == [i \in 1..k |->
                         LET norm == Norm(CAs_CBs_coords[i])
                         IN  [c \in 1..3 |-> FDiv(CAs_CBs_coords[i][c], norm)]]
        Dot(u, v) == FAdd(FMul(u[1], v[1]), FAdd(FMul(u[2], v[2]), FMul(u[3], v[3])))
    IN  IF ~Broadcastable(nC, nCA)
        THEN [raised |-> TRUE, phi_ij |-> <<>>]
        ELSE [raised |-> FALSE,
              phi_ij |-> [i \in 1..k |-> [j \in 1..k |->
                  ACos(Clamp(Dot(normalized[i], normalized[j]), -Scale, Scale))]]]

\* 1 / (1 + exp(d - m))
DistanceWeight(d) == Recip1pExp(FSub(d, m))

\* The angle weight with cos(phi) in the place of cos(pi - phi)
AngleWeightNoFlip(phi) == Pow(FDiv(FAdd(Cos(phi), a), Scale + a), b)

\* ((cos(pi - phi) + a) / (1 + a)) ** b
AngleWeight(phi) == Pow(FDiv(FAdd(Cos(FSub(Pi, phi)), a), Scale + a), b)

\* The middle element of the tensor as it stands, not of the sorted tensor
MedianUnsorted(s) ==
    IF s = <<>> \/ \E i \in 1..Len(s) : IsNaN(s[i]) THEN NaN
    ELSE s[(Len(s) + 1) \div 2]

\* torch.median: the lower median; NaN if any element is NaN or there is none
Median(s) ==
    IF s = <<>> \/ \E i \in 1..Len(s) : IsNaN(s[i]) THEN NaN
    ELSE LET k == (Len(s) + 1) \div 2
         IN  CHOOSE x \in {s[i] : i \in 1..Len(s)} :
                 /\ Cardinality({i \in 1..Len(s) : s[i] < x}) < k
                 /\ Cardinality({i \in 1..Len(s) : s[i] <= x}) >= k

None == [kind |-> "none", v |-> 0]

Score(v) == [kind |-> "score", v |-> v]

\* line 93: distance_weights * angle_weights; needs the two sizes to broadcast
ProductWeights(dis, phi) ==
    LET n == BroadcastLen(Len(dis), Len(phi))
    IN  [i \in 1..n |-> [j \in 1..n |->
            FMul(DistanceWeight(BcastAt2(dis, i, j)),
                 AngleWeight(BcastAt2(phi, i, j)))]]

\* lines 94-95: masked_fill(torch.eye(size(0)).bool(), 0)
MaskedFill(mat) ==
    [i \in 1..Len(mat) |-> [j \in 1..Len(mat[i]) |->
        IF i = j THEN 0 ELSE mat[i][j]]]

\* combined_weights with the diagonal left as line 93 made it
CombinedWeightsUnmasked(dis, phi) == ProductWeights(dis, phi)

\* combined_weights after line 95
CombinedWeights(dis, phi) == MaskedFill(ProductWeights(dis, phi))

\* line 97: torch.sum(combined_weights, dim=1)
NeighborDensity(weights) ==
    [i \in 1..Len(weights) |-> SumSeq(weights[i])]

\* lines 99-100: 1 - torch.sigmoid(n_i - median_n_i)
SigmoidTerm(densities) ==
    LET median_n_i == Median(densities)
    IN  [i \in 1..Len(densities) |->
            FSub(Scale, Sigmoid(FSub(densities[i], median_n_i)))]

\* line 102: torch.sum(non_polar * sigmoid_term); needs the two lengths to
\* broadcast
Numerator(nonpolar, terms) ==
    LET n == BroadcastLen(Len(nonpolar), Len(terms))
    IN  SumSeq([i \in 1..n |-> FMul(BcastAt(nonpolar, i), BcastAt(terms, i))])

\* Lines 89-107: from the three tensors to the returned value; a shape that
\* does not broadcast raises, which the except clause turns into None.
Aggregate(dis, nonpolar, phi) ==
    IF ~Broadcastable(Len(dis), Len(phi)) THEN None
    ELSE LET terms == SigmoidTerm(NeighborDensity(CombinedWeights(dis, phi)))
         IN  IF ~Broadcastable(Len(nonpolar), Len(terms)) THEN None
             ELSE Score(FDiv(Numerator(nonpolar, terms), SumSeq(terms)))

\* calculate_surface_polar_score when load_pdb at line 77 reads `first` and
\* the load_pdb inside calculate_backbone_neighbors (line 28) reads `second`.
\* Every exception ends in the except clause, which returns None.
ScoreOfLoads(first, second) ==
    IF ~first.ok \/ ~second.ok THEN None
    ELSE LET angles == calculate_angles(first)
         IN  IF angles.raised THEN None
             ELSE Aggregate(calculate_backbone_neighbors(second),
                            classify_polarity(first).non_polar,
                            angles.phi_ij)

\* The scorer with a distance matrix kept from the call before
score_with_stale_distances(pdb_file) ==
    ScoreOfLoads(pdb_file, IF calls = <<>> THEN pdb_file ELSE calls[Len(calls)].file)

\* calculate_surface_polar_score on a file nobody writes during the call
calculate_surface_polar_score(pdb_file) == ScoreOfLoads(pdb_file, pdb_file)

NoRef == [set |-> FALSE, result |-> None]

\* ------------------------------------------------------------------------
\* One call of calculate_surface_polar_score, statement by statement
\* ------------------------------------------------------------------------
\* The except clause of lines 109-111
Raise ==
    /\ result' = None
    /\ rootLog' = rootLog + 1
    /\ pc' = "done"

\* line 77: top, traj = load_pdb(pdb_file)
LoadPdb ==
    /\ pc = "load"
    /\ IF file.ok
       THEN /\ traj' = file
            /\ pc' = "neighbors"
            /\ UNCHANGED <<result, rootLog>>
       ELSE /\ Raise
            /\ UNCHANGED traj
    /\ loads' = loads + 1
    /\ UNCHANGED <<file, CBs_dis, non_polar, phi_ij, ref, permutes, rewrites, polar, weighVars>>
    /\ UNCHANGED <<callVars, driverVars, angleVars, renameVars, cliVars>>

\* line 79: CBs_dis = calculate_backbone_neighbors(pdb_file), whose line 28
\* loads the file again, as it is on disk now
BackboneNeighbors ==
    /\ pc = "neighbors"
    /\ IF file.ok
       THEN /\ CBs_dis' = calculate_backbone_neighbors(file)
            /\ pc' = "classify"
            /\ UNCHANGED <<result, rootLog>>
       ELSE /\ Raise
            /\ UNCHANGED CBs_dis
    /\ loads' = loads + 1
    /\ UNCHANGED <<file, traj, non_polar, phi_ij, ref, permutes, rewrites, polar, weighVars>>
    /\ UNCHANGED <<callVars, driverVars, angleVars, renameVars, cliVars>>

\* line 81: non_polar, polar = classify_polarity(traj)
ClassifyPolarity ==
    /\ pc = "classify"
    /\ non_polar' = classify_polarity(traj).non_polar
    /\ polar' = classify_polarity(traj).polar
    /\ pc' = "angles"
    /\ UNCHANGED <<file, traj, CBs_dis, phi_ij, result, rootLog, ref, permutes, rewrites>>
    /\ UNCHANGED <<weighVars, loads>>
    /\ UNCHANGED <<callVars, driverVars, angleVars, renameVars, cliVars>>

\* line 83: phi_ij = calculate_angles(traj)
CalculateAngles ==
    /\ pc = "angles"
    /\ LET angles == calculate_angles(traj)
       IN  IF angles.raised
           THEN /\ Raise
                /\ UNCHANGED phi_ij
           ELSE /\ phi_ij' = angles.phi_ij
                /\ pc' = "weigh"
                /\ UNCHANGED <<result, rootLog>>
    /\ UNCHANGED <<file, traj, CBs_dis, non_polar, ref, permutes, rewrites, polar, weighVars, loads>>
    /\ UNCHANGED <<callVars, driverVars, angleVars, renameVars, cliVars>>

\* lines 85-107: the weights, the exposure terms and the ratio
Weigh ==
    /\ pc = "weigh"
    /\ IF ~Broadcastable(Len(CBs_dis), Len(phi_ij))
       THEN /\ Raise
            /\ UNCHANGED weighVars
       ELSE /\ combined_weights' = CombinedWeights(CBs_dis, phi_ij)
            /\ n_i' = NeighborDensity(combined_weights')
            /\ sigmoid_term' = SigmoidTerm(n_i')
            /\ IF ~Broadcastable(Len(non_polar), Len(sigmoid_term'))
               THEN /\ Raise
                    /\ UNCHANGED denominator
               ELSE /\ denominator' = SumSeq(sigmoid_term')
                    /\ result' = Score(FDiv(Numerator(non_polar, sigmoid_term'),
                                            denominator'))
                    /\ pc' = "done"
                    /\ UNCHANGED rootLog
    /\ UNCHANGED <<file, traj, CBs_dis, non_polar, phi_ij, ref, permutes, rewrites, polar, loads>>
    /\ UNCHANGED <<callVars, driverVars, angleVars, renameVars, cliVars>>

SwapAt(s, i) ==
    [k \in 1..Len(s) |-> IF k = i THEN s[i + 1] ELSE IF k = i + 1 THEN s[i] ELSE s[k]]

\* The caller reorders the residues of the scored structure (each residue
\* keeps its name and its atoms) and scores it again.
Permute ==
    /\ pc = "done"
    /\ file.ok
    /\ permutes < MaxPermute
    /\ \E i \in 1..(Len(file.residues) - 1) :
           file' = PdbFile(SwapAt(file.residues, i))
    /\ ref' = IF ref.set THEN ref ELSE [set |-> TRUE, result |-> result]
    /\ permutes' = permutes + 1
    /\ pc' = "load"
    /\ traj' = <<>>
    /\ CBs_dis' = <<>>
    /\ non_polar' = <<>>
    /\ phi_ij' = <<>>
    /\ polar' = <<>>
    /\ combined_weights' = <<>>
    /\ n_i' = <<>>
    /\ sigmoid_term' = <<>>
    /\ denominator' = 0
    /\ loads' = 0
    /\ result' = None
    /\ UNCHANGED <<rewrites, rootLog, callVars, driverVars, angleVars, renameVars, cliVars>>

\* No call in progress
IdleScorer ==
    /\ file = Unparseable
    /\ traj = <<>>
    /\ CBs_dis = <<>>
    /\ non_polar = <<>>
    /\ phi_ij = <<>>
    /\ polar = <<>>
    /\ combined_weights = <<>>
    /\ n_i = <<>>
    /\ sigmoid_term = <<>>
    /\ denominator = 0
    /\ loads = 0
    /\ rewrites = 0
    /\ result = None
    /\ pc = "idle"
    /\ ref = NoRef
    /\ permutes = 0

IdleCalls == calls = <<>>

IdleDriver ==
    /\ design = <<>>
    /\ output = <<>>
    /\ polar_threshold = 0
    /\ pdb_files = <<>>
    /\ idx = 0
    /\ total_files = 0
    /\ passed_files = 0
    /\ visited = <<>>
    /\ log = <<>>
    /\ dpc = "idle"

IdleAngle ==
    /\ phi1 = 0
    /\ phi2 = 0
    /\ w1 = 0
    /\ w2 = 0
    /\ apc = "idle"

\* An option of the command line: absent (argparse gives None) or given
NoOpt == [given |-> FALSE, v |-> <<>>]

Opt(v) == [given |-> TRUE, v |-> v]

IdleRename ==
    /\ rename_args = [input |-> NoOpt, output |-> NoOpt, prefix |-> NoOpt]
    /\ disk = <<>>
    /\ original = <<>>
    /\ file1 = 0
    /\ file2 = <<>>
    /\ prefix = <<>>
    /\ rnpc = "idle"

NoFloat == [given |-> FALSE, v |-> 0]

IdleCli ==
    /\ args = [design_path |-> NoOpt, reference_pdb |-> NoOpt,
               polar_score |-> NoFloat, calculate |-> NoOpt]
    /\ mode = "unbound"
    /\ mpc = "idle"

InitScorer ==
    /\ file \in PdbFiles
    /\ traj = <<>>
    /\ CBs_dis = <<>>
    /\ non_polar = <<>>
    /\ phi_ij = <<>>
    /\ polar = <<>>
    /\ combined_weights = <<>>
    /\ n_i = <<>>
    /\ sigmoid_term = <<>>
    /\ denominator = 0
    /\ loads = 0
    /\ rewrites = 0
    /\ result = None
    /\ pc = "load"
    /\ ref = NoRef
    /\ permutes = 0

Init ==
    /\ InitScorer
    /\ rootLog = 0
    /\ IdleCalls
    /\ IdleDriver
    /\ IdleAngle
    /\ IdleRename
    /\ IdleCli

Next ==
    \/ LoadPdb
    \/ BackboneNeighbors
    \/ ClassifyPolarity
    \/ CalculateAngles
    \/ Weigh
    \/ Permute

Spec == Init /\ [][Next]_vars

\* ------------------------------------------------------------------------
\* A process that calls the scorer several times (the reference PDB and then
\* the files of the batch, lines 237 and 132)
\* ------------------------------------------------------------------------
Res(n) == CHOOSE r \in ResidueSet : r.resSeq = <<n>>

\* A structure with a score strictly between 0 and 1, one that scores 0, one
\* whose score is NaN, one the scorer raises on, and a file md.load raises on
FileMixed == PdbFile(<<Res("1"), Res("2"), Res("3")>>)

FilePolar == PdbFile(<<Res("2"), Res("3")>>)

FileNaN == PdbFile(<<Res("1"), Res("5")>>)

FileWater == PdbFile(<<Res("1"), Res("2"), Res("8")>>)

SampleFiles == {FileMixed, FilePolar, FileNaN, FileWater, Unparseable}

\* One call: the scorer runs to its end before the caller goes on.
Call ==
    /\ Len(calls) < MaxCalls
    /\ \E f \in SampleFiles :
           LET r == calculate_surface_polar_score(f)
           IN  /\ calls' = Append(calls, [file |-> f, result |-> r])
               /\ rootLog' = IF r = None THEN rootLog + 1 ELSE rootLog
    /\ UNCHANGED <<scorerVars, driverVars, angleVars, renameVars, cliVars>>

InitCalls ==
    /\ IdleScorer
    /\ rootLog = 0
    /\ IdleCalls
    /\ IdleDriver
    /\ IdleAngle
    /\ IdleRename
    /\ IdleCli

NextCalls == Call

SpecCalls == InitCalls /\ [][NextCalls]_vars

\* ------------------------------------------------------------------------
\* filter_pdbs_by_polar_score
\* ------------------------------------------------------------------------
\* File names, character by character
PdbNames == { <<"a", ".", "p", "d", "b">>,
              <<"b", ".", "p", "d", "b">>,
              <<"c", ".", "p", "d", "b">> }

OtherNames == { <<"n", ".", "t", "x", "t">>, <<"p", "d", "b">> }

FileNames == PdbNames \cup OtherNames

\* f.endswith(suffix)
EndsWith(f, suffix) ==
    /\ Len(f) >= Len(suffix)
    /\ SubSeq(f, Len(f) - Len(suffix) + 1, Len(f)) = suffix

DotPdb == <<".", "p", "d", "b">>

\* polar_score <= polar_threshold on floats: False when either is NaN
Leq(x, y) == ~IsNaN(x) /\ ~IsNaN(y) /\ x <= y

\* The orders os.listdir may give the names of S in
Orderings(S) ==
    {s \in [1..Cardinality(S) -> S] : \A i, j \in 1..Cardinality(S) : i # j => s[i] # s[j]}

BatchFiles == {FileMixed, FilePolar, FileNaN, Unparseable}

\* line 132: polar_score = calculate_surface_polar_score(file_path), tabulated
\* over the files of the batch
BatchScores == [f \in BatchFiles |-> calculate_surface_polar_score(f)]

\* The thresholds a caller passes: a number of its own, or the score of a
\* reference PDB (line 237)
Thresholds ==
    {Scale \div 2} \cup
    {BatchScores[f].v : f \in {FileMixed, FilePolar, FileNaN}}

InitFilter ==
    /\ IdleScorer
    /\ rootLog = 0
    /\ IdleCalls
    /\ IdleAngle
    /\ IdleRename
    /\ IdleCli
    /\ \E P \in SUBSET PdbNames, O \in SUBSET OtherNames :
          \E dp \in [P -> BatchFiles] :
              design = [f \in P \cup O |-> IF f \in P THEN dp[f] ELSE Unparseable]
    /\ output = <<>>
    /\ polar_threshold \in Thresholds
    /\ pdb_files = <<>>
    /\ idx = 0
    /\ total_files = 0
    /\ passed_files = 0
    /\ visited = <<>>
    /\ log = <<>>
    /\ dpc = "start"

\* lines 119-127: the output directory, the listing, the counters
StartFilter ==
    /\ dpc = "start"
    /\ pdb_files' \in Orderings({f \in DOMAIN design : EndsWith(f, DotPdb)})
    /\ total_files' = Len(pdb_files')
    /\ passed_files' = 0
    /\ idx' = 1
    /\ log' = log \o <<<<"info", "found", total_files'>>>>
    /\ dpc' = "loop"
    /\ UNCHANGED <<design, output, polar_threshold, visited>>
    /\ UNCHANGED <<scorerVars, rootLog, callVars, angleVars, renameVars, cliVars>>

\* shutil.copy(file_path, dest_path)
CopyFile(name) == [f \in DOMAIN output \cup {name} |->
                       IF f = name THEN design[name] ELSE output[f]]

\* One iteration of the loop, whose first failure ends the loop
VisitFileBreak ==
    /\ dpc = "loop"
    /\ idx <= Len(pdb_files)
    /\ LET pdb_file == pdb_files[idx]
           polar_score == BatchScores[design[pdb_file]]
       IN  /\ visited' = Append(visited, [name |-> pdb_file, score |-> polar_score])
           /\ IF polar_score = None
              THEN /\ rootLog' = rootLog + 1
                   /\ log' = Append(log, <<"warning", "skipped", pdb_file>>)
                   /\ idx' = Len(pdb_files) + 1
                   /\ UNCHANGED <<output, passed_files>>
              ELSE /\ idx' = idx + 1
                   /\ IF Leq(polar_score.v, polar_threshold)
                      THEN /\ output' = CopyFile(pdb_file)
                           /\ log' = log \o <<<<"info", "score", pdb_file>>,
                                              <<"info", "copied", pdb_file>>>>
                           /\ passed_files' = passed_files + 1
                           /\ UNCHANGED rootLog
                      ELSE /\ log' = log \o <<<<"info", "score", pdb_file>>,
                                              <<"info", "rejected", pdb_file>>>>
                           /\ UNCHANGED <<output, passed_files, rootLog>>
    /\ UNCHANGED <<design, polar_threshold, pdb_files, total_files, dpc>>
    /\ UNCHANGED <<scorerVars, callVars, angleVars, renameVars, cliVars>>

\* One iteration of the loop with shutil.move in the place of shutil.copy and
\* < in the place of <=
VisitFileMoveStrict ==
    /\ dpc = "loop"
    /\ idx <= Len(pdb_files)
    /\ LET pdb_file == pdb_files[idx]
           polar_score == BatchScores[design[pdb_file]]
       IN  /\ visited' = Append(visited, [name |-> pdb_file, score |-> polar_score])
           /\ idx' = idx + 1
           /\ IF polar_score = None
              THEN /\ rootLog' = rootLog + 1
                   /\ log' = Append(log, <<"warning", "skipped", pdb_file>>)
                   /\ UNCHANGED <<output, passed_files, design>>
              ELSE IF ~IsNaN(polar_score.v) /\ ~IsNaN(polar_threshold)
                      /\ polar_score.v < polar_threshold
                   THEN /\ output' = CopyFile(pdb_file)
                        /\ design' = [f \in DOMAIN design \ {pdb_file} |-> design[f]]
                        /\ log' = log \o <<<<"info", "score", pdb_file>>,
                                           <<"info", "copied", pdb_file>>>>
                        /\ passed_files' = passed_files + 1
                        /\ UNCHANGED rootLog
                   ELSE /\ log' = log \o <<<<"info", "score", pdb_file>>,
                                           <<"info", "rejected", pdb_file>>>>
                        /\ UNCHANGED <<output, passed_files, rootLog, design>>
    /\ UNCHANGED <<polar_threshold, pdb_files, total_files, dpc>>
    /\ UNCHANGED <<scorerVars, callVars, angleVars, renameVars, cliVars>>

\* lines 129-146: one iteration of the loop.  A failing call has written its
\* error record (line 110) before the driver logs its warning.
VisitFile ==
    /\ dpc = "loop"
    /\ idx <= Len(pdb_files)
    /\ LET pdb_file == pdb_files[idx]
           polar_score == BatchScores[design[pdb_file]]
       IN  /\ visited' = Append(visited, [name |-> pdb_file, score |-> polar_score])
           /\ idx' = idx + 1
           /\ IF polar_score = None
              THEN /\ rootLog' = rootLog + 1
                   /\ log' = Append(log, <<"warning", "skipped", pdb_file>>)
                   /\ UNCHANGED <<output, passed_files>>
              ELSE IF Leq(polar_score.v, polar_threshold)
                   THEN /\ output' = CopyFile(pdb_file)
                        /\ log' = log \o <<<<"info", "score", pdb_file>>,
                                           <<"info", "copied", pdb_file>>>>
                        /\ passed_files' = passed_files + 1
                        /\ UNCHANGED rootLog
                   ELSE /\ log' = log \o <<<<"info", "score", pdb_file>>,
                                           <<"info", "rejected", pdb_file>>>>
                        /\ UNCHANGED <<output, passed_files, rootLog>>
    /\ UNCHANGED <<design, polar_threshold, pdb_files, total_files, dpc>>
    /\ UNCHANGED <<scorerVars, callVars, angleVars, renameVars, cliVars>>

\* lines 148-157: the summary and the return of passed_files
FinishFilter ==
    /\ dpc = "loop"
    /\ idx > Len(pdb_files)
    /\ log' = Append(log, <<"info", "summary", total_files, passed_files>>)
    /\ dpc' = "done"
    /\ UNCHANGED <<design, output, polar_threshold, pdb_files, idx, total_files,
                   passed_files, visited>>
    /\ UNCHANGED <<scorerVars, rootLog, callVars, angleVars, renameVars, cliVars>>

NextFilter ==
    \/ StartFilter
    \/ VisitFile
    \/ FinishFilter

SpecFilter == InitFilter /\ [][NextFilter]_vars

\* The driver is one sequential function: a statement that can run, runs.
FairFilter == SpecFilter /\ WF_vars(NextFilter)

\* ------------------------------------------------------------------------
\* The angle weight of line 91 on its own
\* ------------------------------------------------------------------------
AngleGrid == {(k * Pi) \div AngleSteps : k \in 0..AngleSteps}

InitAngle ==
    /\ IdleScorer
    /\ rootLog = 0
    /\ IdleCalls
    /\ IdleDriver
    /\ IdleRename
    /\ IdleCli
    /\ phi1 \in AngleGrid
    /\ phi2 \in AngleGrid
    /\ w1 = 0
    /\ w2 = 0
    /\ apc = "start"

EvalAngleWeights ==
    /\ apc = "start"
    /\ w1' = AngleWeight(phi1)
    /\ w2' = AngleWeight(phi2)
    /\ apc' = "done"
    /\ UNCHANGED <<phi1, phi2, scorerVars, rootLog, callVars, driverVars>>
    /\ UNCHANGED <<renameVars, cliVars>>

NextAngle == EvalAngleWeights

SpecAngle == InitAngle /\ [][NextAngle]_vars

\* ------------------------------------------------------------------------
\* One call of the scorer while another process rewrites the file
\* ------------------------------------------------------------------------
\* The structure of FileMixed with its third residue in another place
FileMoved == PdbFile(<<Res("1"), Res("2"), Res("4")>>)

\* What the file may hold at either reading
RewriteFiles == SampleFiles \cup {FileMoved}

InitRewrite ==
    /\ file \in RewriteFiles
    /\ traj = <<>>
    /\ CBs_dis = <<>>
    /\ non_polar = <<>>
    /\ phi_ij = <<>>
    /\ polar = <<>>
    /\ combined_weights = <<>>
    /\ n_i = <<>>
    /\ sigmoid_term = <<>>
    /\ denominator = 0
    /\ loads = 0
    /\ rewrites = 0
    /\ result = None
    /\ pc = "load"
    /\ ref = NoRef
    /\ permutes = 0
    /\ rootLog = 0
    /\ IdleCalls
    /\ IdleDriver
    /\ IdleAngle
    /\ IdleRename
    /\ IdleCli

\* Another process replaces the file while the call is running.
Rewrite ==
    /\ pc \in {"load", "neighbors", "classify", "angles", "weigh"}
    /\ rewrites < MaxRewrites
    /\ file' \in RewriteFiles \ {file}
    /\ rewrites' = rewrites + 1
    /\ UNCHANGED <<traj, CBs_dis, non_polar, phi_ij, result, pc, ref, permutes,
                   polar, weighVars, loads>>
    /\ UNCHANGED <<rootLog, callVars, driverVars, angleVars, renameVars, cliVars>>

NextRewrite ==
    \/ LoadPdb
    \/ BackboneNeighbors
    \/ ClassifyPolarity
    \/ CalculateAngles
    \/ Weigh
    \/ Rewrite

SpecRewrite == InitRewrite /\ [][NextRewrite]_vars

\* ------------------------------------------------------------------------
\* classify_polarity on its own, over all the names of its two lists
\* ------------------------------------------------------------------------
MET == <<"M", "E", "T">>
TRP == <<"T", "R", "P">>
PHE == <<"P", "H", "E">>
THR == <<"T", "H", "R">>
TYR == <<"T", "Y", "R">>
ASN == <<"A", "S", "N">>
GLN == <<"G", "L", "N">>
GLY == <<"G", "L", "Y">>

\* Names of fewer than three letters: str(residue)[:3] then takes digits of
\* the residue number
SODIUM == <<"N", "A">>
ADENOSINE == <<"A">>

ClassifyNames ==
    {ILE, LEU, MET, TRP, PHE, VAL, SER, THR, TYR, ASN, GLN, LYS, GLY, HOH,
     SODIUM, ADENOSINE}

ResSeqs == { <<"1">>, <<"2", "7">> }

\* Residues as classify_polarity sees them: a name and a number
ClassifyResidues ==
    {Residue(name, resSeq, NoAtom, NoAtom) : name \in ClassifyNames, resSeq \in ResSeqs}

\* The call has loaded the file (lines 77 and 28) and is at line 81.
InitClassify ==
    /\ \E rs \in SeqsUpTo(ClassifyResidues, MaxClassify) \ {<<>>} :
           /\ file = PdbFile(rs)
           /\ traj = PdbFile(rs)
           /\ CBs_dis = calculate_backbone_neighbors(PdbFile(rs))
    /\ non_polar = <<>>
    /\ phi_ij = <<>>
    /\ polar = <<>>
    /\ combined_weights = <<>>
    /\ n_i = <<>>
    /\ sigmoid_term = <<>>
    /\ denominator = 0
    /\ loads = 2
    /\ rewrites = 0
    /\ result = None
    /\ pc = "classify"
    /\ ref = NoRef
    /\ permutes = 0
    /\ rootLog = 0
    /\ IdleCalls
    /\ IdleDriver
    /\ IdleAngle
    /\ IdleRename
    /\ IdleCli

NextClassify == ClassifyPolarity

SpecClassify == InitClassify /\ [][NextClassify]_vars

\* ------------------------------------------------------------------------
\* fasta_rename.py.  Texts are sequences of characters.
\* ------------------------------------------------------------------------
\* if x: of an option: None and the empty string are false
Truthy(opt) == opt.given /\ opt.v # <<>>

\* The least index from i on where s has ch, or 0
RECURSIVE IndexFrom(_, _, _)
IndexFrom(s, ch, i) ==
    IF i > Len(s) THEN 0
    ELSE IF s[i] = ch THEN i
    ELSE IndexFrom(s, ch, i + 1)

\* readline() of a file that has read pos characters of content
ReadLine(content, pos) ==
    LET nl == IndexFrom(content, "\n", pos + 1)
    IN  IF nl = 0 THEN SubSeq(content, pos + 1, Len(content))
                  ELSE SubSeq(content, pos + 1, nl)

\* s.split(sep)
RECURSIVE Split(_, _)
Split(s, sep) ==
    LET k == IndexFrom(s, sep, 1)
    IN  IF k = 0 THEN <<s>>
        ELSE <<SubSeq(s, 1, k - 1)>> \o Split(SubSeq(s, k + 1, Len(s)), sep)

\* line.startswith(">")
StartsWithGt(line) == Len(line) >= 1 /\ line[1] = ">"

RECURSIVE Concat(_)
Concat(ss) == IF ss = <<>> THEN <<>> ELSE Head(ss) \o Concat(Tail(ss))

\* lines 31-36: what the loop writes for a header line of two words or more
RenamedHeader(line, pfx) ==
    LET words == Split(line, ",")
        number == Split(words[2], "=")
        renamed == [words EXCEPT ![1] = <<">">> \o pfx \o number[Len(number)]]
    IN  Concat([i \in 1..(Len(renamed) - 1) |-> renamed[i] \o <<",">>])
            \o renamed[Len(renamed)] \o <<"\n">>

InPath == <<"i", "n", ".", "f", "a">>

OutPath == <<"o", "u", "t", ".", "f", "a">>

\* Lines of a ProteinMPNN result: the header of the designed protein, the
\* header of a sample, a sequence, and a header without a comma
HeaderName == <<">", "p", ",", "s", "=", "0", "\n">>

HeaderSample == <<">", "T", ",", "n", "=", "1", ",", "r", "=", "2", "\n">>

SeqLine == <<"M", "K", "\n">>

HeaderBare == <<">", "x", "\n">>

SampleLines == {HeaderName, HeaderSample, SeqLine, HeaderBare}

Contents == {Concat(ls) : ls \in SeqsUpTo(SampleLines, MaxLines)}

\* lines 22-23
input_path == rename_args.input.v

output_path == IF Truthy(rename_args.output) THEN rename_args.output.v
               ELSE rename_args.input.v

InitRename ==
    /\ IdleScorer
    /\ rootLog = 0
    /\ IdleCalls
    /\ IdleDriver
    /\ IdleAngle
    /\ IdleCli
    /\ \E o \in {NoOpt, Opt(OutPath)}, pf \in {NoOpt, Opt(<<"q">>)} :
           rename_args = [input |-> Opt(InPath), output |-> o, prefix |-> pf]
    /\ \E content \in Contents :
           /\ disk = [f \in {InPath} |-> content]
           /\ original = content
    /\ file1 = 0
    /\ file2 = <<>>
    /\ prefix = <<>>
    /\ rnpc = "open"

\* line 24: file1 is opened for reading, then file2 for writing, which
\* creates the file or truncates it
OpenFiles ==
    /\ rnpc = "open"
    /\ file1' = 0
    /\ file2' = <<>>
    /\ disk' = [f \in DOMAIN disk \cup {output_path} |->
                   IF f = output_path THEN <<>> ELSE disk[f]]
    /\ rnpc' = "header"
    /\ UNCHANGED <<rename_args, original, prefix>>
    /\ UNCHANGED <<scorerVars, rootLog, callVars, driverVars, angleVars, cliVars>>

\* lines 25-28: the first two lines are read and not written
ReadHeader ==
    /\ rnpc = "header"
    /\ LET line1 == ReadLine(disk[input_path], file1)
           lin2 == ReadLine(disk[input_path], file1 + Len(line1))
           first == Split(line1, ",")[1]
           protein_name == SubSeq(first, 2, Len(first))
       IN  /\ file1' = file1 + Len(line1) + Len(lin2)
           /\ prefix' = IF Truthy(rename_args.prefix) THEN rename_args.prefix.v
                        ELSE protein_name
    /\ rnpc' = "loop"
    /\ UNCHANGED <<rename_args, disk, original, file2>>
    /\ UNCHANGED <<scorerVars, rootLog, callVars, driverVars, angleVars, cliVars>>

\* Leaving the with block: file2 is flushed and both files are closed
Flush == [disk EXCEPT ![output_path] = @ \o file2]

\* lines 29-38: one iteration of the loop.  words[1] of a header without a
\* comma raises IndexError, which ends the run.
RenameLine ==
    /\ rnpc = "loop"
    /\ file1 < Len(disk[input_path])
    /\ LET line == ReadLine(disk[input_path], file1)
       IN  /\ file1' = file1 + Len(line)
           /\ IF StartsWithGt(line)
              THEN IF Len(Split(line, ",")) < 2
                   THEN /\ disk' = Flush
                        /\ file2' = <<>>
                        /\ rnpc' = "raised"
                   ELSE /\ file2' = file2 \o RenamedHeader(line, prefix)
                        /\ UNCHANGED <<disk, rnpc>>
              ELSE /\ file2' = file2 \o line \o <<"\n">>
                   /\ UNCHANGED <<disk, rnpc>>
    /\ UNCHANGED <<rename_args, original, prefix>>
    /\ UNCHANGED <<scorerVars, rootLog, callVars, driverVars, angleVars, cliVars>>

\* The loop ends at the end of file1 and the with block is left
CloseFiles ==
    /\ rnpc = "loop"
    /\ file1 >= Len(disk[input_path])
    /\ disk' = Flush
    /\ file2' = <<>>
    /\ rnpc' = "done"
    /\ UNCHANGED <<rename_args, original, file1, prefix>>
    /\ UNCHANGED <<scorerVars, rootLog, callVars, driverVars, angleVars, cliVars>>

NextRename ==
    \/ OpenFiles
    \/ ReadHeader
    \/ RenameLine
    \/ CloseFiles

SpecRename == InitRename /\ [][NextRename]_vars

\* ------------------------------------------------------------------------
\* The main block of polar_score.py: the command line, the choice of the
\* mode, and the run in that mode
\* ------------------------------------------------------------------------
\* -p with type=float
OptFloat(x) == [given |-> TRUE, v |-> x]

\* if args.polar_score: None and 0.0 are false, every other float (NaN too)
\* is true
TruthyFloat(opt) == opt.given /\ opt.v # 0

DesignPath == <<"d", "e", "s", "i", "g", "n", "s">>

MissingPath == <<"m", "i", "s", "s", "i", "n", "g">>

RefPath == <<"r", ".", "p", "d", "b">>

BadRefPath == <<"u", ".", "p", "d", "b">>

\* The files outside the design directory
ReferenceFiles == [f \in {RefPath, BadRefPath} |->
                      IF f = RefPath THEN FileMixed ELSE Unparseable]

\* What md.load finds at a path: a file, or nothing, which makes it raise
FileAt(path) == IF path \in DOMAIN ReferenceFiles THEN ReferenceFiles[path]
                ELSE Unparseable

\* The design directory on disk
DesignDir ==
    [f \in {<<"a", ".", "p", "d", "b">>, <<"b", ".", "p", "d", "b">>,
             <<"n", ".", "t", "x", "t">>} |->
        IF f = <<"a", ".", "p", "d", "b">> THEN FileMixed
        ELSE IF f = <<"b", ".", "p", "d", "b">> THEN FilePolar
        ELSE Unparseable]

\* The values given with -p
PolarScoreArgs == {0, Scale \div 2, Scale}

\* line 212: args = parser.parse_args() has run
InitCli ==
    /\ IdleScorer
    /\ rootLog = 0
    /\ IdleCalls
    /\ IdleAngle
    /\ IdleRename
    /\ \E d \in {NoOpt, Opt(DesignPath), Opt(MissingPath)},
          r \in {NoOpt, Opt(RefPath), Opt(BadRefPath)},
          p \in {NoFloat} \cup {OptFloat(x) : x \in PolarScoreArgs},
          c \in {NoOpt, Opt(RefPath), Opt(MissingPath)} :
           args = [design_path |-> d, reference_pdb |-> r,
                   polar_score |-> p, calculate |-> c]
    /\ mode = "unbound"
    /\ mpc = "mode"
    /\ design = DesignDir
    /\ output = <<>>
    /\ polar_threshold = 0
    /\ pdb_files = <<>>
    /\ idx = 0
    /\ total_files = 0
    /\ passed_files = 0
    /\ visited = <<>>
    /\ log = <<>>
    /\ dpc = "idle"

\* lines 214-224; parser.error prints the usage and exits with status 2
SelectMode ==
    /\ mpc = "mode"
    /\ IF Truthy(args.calculate)
       THEN mode' = "single" /\ mpc' = "run"
       ELSE IF Truthy(args.design_path)
       THEN IF Truthy(args.reference_pdb) /\ TruthyFloat(args.polar_score)
            THEN mode' = mode /\ mpc' = "usage error"
            ELSE IF ~Truthy(args.reference_pdb) /\ ~TruthyFloat(args.polar_score)
            THEN mode' = mode /\ mpc' = "usage error"
            ELSE mode' = "filter" /\ mpc' = "run"
       ELSE mode' = mode /\ mpc' = "usage error"
    /\ UNCHANGED <<args, scorerVars, rootLog, callVars, driverVars, angleVars,
                   renameVars>>

\* lines 230-231 with calculate_single_pdb (lines 159-170)
RunSingle ==
    /\ mpc = "run"
    /\ mode = "single"
    /\ IF args.calculate.v \notin DOMAIN ReferenceFiles
       THEN /\ log' = Append(log, <<"error", "missing", args.calculate.v>>)
            /\ UNCHANGED <<calls, rootLog>>
       ELSE LET polar_score == BatchScores[FileAt(args.calculate.v)]
            IN  /\ calls' = Append(calls, [file |-> FileAt(args.calculate.v),
                                           result |-> polar_score])
                /\ IF polar_score = None
                   THEN /\ rootLog' = rootLog + 1
                        /\ log' = Append(log, <<"error", "single", args.calculate.v>>)
                   ELSE /\ log' = Append(log, <<"info", "single", args.calculate.v>>)
                        /\ UNCHANGED rootLog
    /\ mpc' = "end"
    /\ UNCHANGED <<design, output, polar_threshold, pdb_files, idx, total_files,
                   passed_files, visited, dpc>>
    /\ UNCHANGED <<args, mode, scorerVars, angleVars, renameVars>>

\* lines 233-243: the threshold is the score of the reference, or the number
\* given with -p
SetThreshold ==
    /\ mpc = "run"
    /\ mode = "filter"
    /\ IF Truthy(args.reference_pdb)
       THEN LET reference == BatchScores[FileAt(args.reference_pdb.v)]
            IN  /\ calls' = Append(calls, [file |-> FileAt(args.reference_pdb.v),
                                           result |-> reference])
                /\ IF reference = None
                   THEN /\ rootLog' = rootLog + 1
                        /\ log' = Append(log, <<"error", "reference", args.reference_pdb.v>>)
                        /\ mpc' = "exit 1"
                        /\ UNCHANGED polar_threshold
                   ELSE /\ polar_threshold' = reference.v
                        /\ log' = Append(log, <<"info", "reference", args.reference_pdb.v>>)
                        /\ mpc' = "paths"
                        /\ UNCHANGED rootLog
       ELSE /\ polar_threshold' = args.polar_score.v
            /\ mpc' = "paths"
            /\ UNCHANGED <<calls, rootLog, log>>
    /\ UNCHANGED <<design, output, pdb_files, idx, total_files, passed_files,
                   visited, dpc>>
    /\ UNCHANGED <<args, mode, scorerVars, angleVars, renameVars>>

\* lines 245-268: the output directory is named, the design path is looked
\* at, and filter_pdbs_by_polar_score is called
EnterFilter ==
    /\ mpc = "paths"
    /\ IF args.design_path.v # DesignPath
       THEN /\ log' = log \o <<<<"info", "output_dir">>, <<"error", "design_path">>>>
            /\ mpc' = "exit 1"
            /\ UNCHANGED dpc
       ELSE /\ log' = log \o <<<<"info", "output_dir">>, <<"info", "start">>>>
            /\ mpc' = "filter"
            /\ dpc' = "start"
    /\ UNCHANGED <<design, output, polar_threshold, pdb_files, idx, total_files,
                   passed_files, visited>>
    /\ UNCHANGED <<args, mode, scorerVars, rootLog, callVars, angleVars, renameVars>>

\* lines 270-271: filter_pdbs_by_polar_score has returned
EndFilter ==
    /\ mpc = "filter"
    /\ dpc = "done"
    /\ log' = Append(log, <<"info", "finished", passed_files>>)
    /\ mpc' = "end"
    /\ UNCHANGED <<design, output, polar_threshold, pdb_files, idx, total_files,
                   passed_files, visited, dpc>>
    /\ UNCHANGED <<args, mode, scorerVars, rootLog, callVars, angleVars, renameVars>>

NextCli ==
    \/ SelectMode
    \/ RunSingle
    \/ SetThreshold
    \/ EnterFilter
    \/ StartFilter
    \/ VisitFile
    \/ FinishFilter
    \/ EndFilter

SpecCli == InitCli /\ [][NextCli]_vars

\* ------------------------------------------------------------------------
\* Properties of the scorer (checked under Spec)
\* ------------------------------------------------------------------------
Done == pc = "done"

Parsed == Done /\ file.ok

NRes == Len(file.residues)

NumC == Len(SelectC(file.residues))

NumCA == Len(SelectCA(file.residues))

Complete(r) == HasC(r) /\ HasCA(r)

NonPolarNames == {VAL, LEU, ILE}

IsNonPolar(r) == r.name \in NonPolarNames

\* C1: every call returns a failure (None) or a number in [0, 1], never NaN.
C1_ScoreInUnitInterval ==
    Done => \/ result = None
            \/ /\ result.kind = "score"
               /\ ~IsNaN(result.v)
               /\ 0 <= result.v
               /\ result.v <= Scale

C3_MismatchFails ==
    (Parsed /\ ~(NumC = NumCA /\ NumCA = NRes)) => result = None

\* C4: a returned score of a structure without NonPolar residues is exactly 0.
C4_NoNonPolarScoresZero ==
    ( /\ Parsed
      /\ NRes >= 1
      /\ \A i \in 1..NRes : ~IsNonPolar(file.residues[i])
      /\ result.kind = "score" ) => result.v = 0

\* C5: a returned score of a structure of NonPolar residues only is exactly 1.
C5_AllNonPolarScoresOne ==
    ( /\ Parsed
      /\ NRes >= 1
      /\ \A i \in 1..NRes : IsNonPolar(file.residues[i])
      /\ result.kind = "score" ) => result.v = Scale

\* C8: after any reordering of the residues (each keeping its name and its
\* atoms) the call returns what it returned for the structure in its first
\* order.
C8_PermutationInvariant ==
    (Done /\ ref.set) => result = ref.result

C8_Witness ==
    /\ Done
    /\ ref.set
    /\ NRes = 3
    /\ \A i \in 1..NRes : Complete(file.residues[i])
    /\ \A i, j \in 1..NRes : i # j => file.residues[i] # file.residues[j]
    /\ result.kind = "score"
    /\ 0 < result.v
    /\ result.v < Scale

\* The row without its i-th entry
RowWithout(row, i) ==
    [j \in 1..(Len(row) - 1) |-> IF j < i THEN row[j] ELSE row[j + 1]]

\* C11: every diagonal entry of combined_weights is exactly 0 once line 95 has
\* run, whatever the product of line 93 had there (NaN included), and each
\* neighbor density n_i is the sum of the other residues' weights alone.
C11_DiagonalZero ==
    /\ \A i \in 1..Len(combined_weights) : combined_weights[i][i] = 0
    /\ (Done /\ result.kind = "score") =>
           LET product == ProductWeights(CBs_dis, phi_ij)
           IN  /\ Len(combined_weights) = Len(product)
               /\ n_i = [i \in 1..Len(product) |-> SumSeq(RowWithout(product[i], i))]

C11_Witness ==
    /\ Done
    /\ result.kind = "score"
    /\ NRes = 3
    /\ Len(combined_weights) = 3
    /\ LET product == ProductWeights(CBs_dis, phi_ij)
       IN  /\ \A i \in 1..3 : product[i][i] > 0 /\ combined_weights[i][i] = 0
           /\ \E i, j \in 1..3 : i # j /\ combined_weights[i][j] > 0
    /\ \E i \in 1..3 : n_i[i] > 0

Finite(s) == \A i \in 1..Len(s) : ~IsNaN(s[i])

C14_LoadedOnce ==
    /\ loads <= 1
    /\ (Done /\ result.kind = "score") =>
           /\ loads = 1
           /\ CBs_dis = calculate_backbone_neighbors(traj)
           /\ result = calculate_surface_polar_score(traj)

\* ------------------------------------------------------------------------
NonPolarClass == {ILE, LEU, MET, TRP, PHE, VAL}

PolarClass == {SER, THR, TYR, ASN, GLN}

Classified == pc = "angles"

\* C12: once line 81 has run, both vectors have one entry per residue, in
\* residue order; non_polar[i] is 1 exactly if the name of residue i is one of
\* ILE, LEU, MET, TRP, PHE, VAL and 0 otherwise; polar[i] is 1 exactly if
\* the name is one of SER, THR, TYR, ASN, GLN and 0 otherwise; the two are
\* never both 1.
C12_ExactlyOneClass ==
    Classified =>
        /\ Len(non_polar) = Len(traj.residues)
        /\ Len(polar) = Len(traj.residues)
        /\ \A i \in 1..Len(traj.residues) :
               /\ non_polar[i] = IF traj.residues[i].name \in NonPolarClass
                                 THEN Scale ELSE 0
               /\ polar[i] = IF traj.residues[i].name \in PolarClass
                             THEN Scale ELSE 0
               /\ ~(non_polar[i] = Scale /\ polar[i] = Scale)

C12_Witness ==
    /\ Classified
    /\ Len(traj.residues) = 2
    /\ traj.residues[1].name = TRP
    /\ traj.residues[2].name = GLN
    /\ non_polar = <<Scale, 0>>
    /\ polar = <<0, Scale>>

\* ------------------------------------------------------------------------
\* Properties of the batch driver (checked under SpecFilter and FairFilter)
\* ------------------------------------------------------------------------
Failed(i) == visited[i].score = None

Passes(i) == ~Failed(i) /\ Leq(visited[i].score.v, polar_threshold)

C6_AtSummary ==
    dpc = "done" =>
        /\ visited = [i \in 1..Len(pdb_files) |->
                         [name |-> pdb_files[i], score |-> BatchScores[design[pdb_files[i]]]]]
        /\ \A i \in 1..Len(visited) :
               Failed(i) =>
                   /\ visited[i].name \notin DOMAIN output
                   /\ \E k \in 1..Len(log) : log[k] = <<"warning", "skipped", visited[i].name>>
        /\ passed_files = Cardinality({i \in 1..Len(visited) : Passes(i)})

C7_Copied ==
    /\ passed_files = Cardinality(DOMAIN output)
    /\ passed_files <= total_files
    /\ \A f \in DOMAIN output : f \in DOMAIN design /\ output[f] = design[f]
    /\ dpc = "done" =>
           \A f \in DOMAIN design :
               f \in DOMAIN output <=>
                   /\ EndsWith(f, DotPdb)
                   /\ BatchScores[design[f]].kind = "score"
                   /\ Leq(BatchScores[design[f]].v, polar_threshold)

\* C7: when the driver returns, a file of the design directory has been copied
\* to the output directory exactly if its name ends in .pdb, its score was
\* computed and the score is at most the threshold; passed_files is the
\* number of copies and never exceeds total_files; no step changes the design
\* directory.
C7_CopiesExactlyThePassing == []C7_Copied /\ [][design' = design]_vars

C7_Witness ==
    /\ dpc = "done"
    /\ \E f, g \in DOMAIN design :
           /\ f \in DOMAIN output
           /\ BatchScores[design[f]].v = polar_threshold
           /\ polar_threshold > 0
           /\ EndsWith(g, DotPdb)
           /\ g \notin DOMAIN output
           /\ BatchScores[design[g]].kind = "score"
    /\ \E h \in DOMAIN design : ~EndsWith(h, DotPdb)
    /\ passed_files < total_files

\* ------------------------------------------------------------------------
\* Properties of repeated calls (checked under SpecCalls)
\* ------------------------------------------------------------------------
SameFileSameResult ==
    \A i, j \in 1..Len(calls) :
        calls[i].file = calls[j].file => calls[i].result = calls[j].result

C10_MonotoneOnZeroPi ==
    (apc = "done" /\ phi1 < phi2) => w1 <= w2

\* C10 as the code has it: the weight is greatest at pi, where it is 1; it
\* does not decrease as the angle grows from acos(a) = pi/3 to pi, and it does
\* not increase as the angle grows from 0 to pi/3 (from 1/9 down to 0).
C10_MaxAtPiMonotoneFromThird ==
    apc = "done" =>
        /\ phi2 = Pi => (w2 = Scale /\ w1 <= w2)
        /\ (ACos(a) <= phi1 /\ phi1 < phi2) => w1 <= w2
        /\ (phi1 < phi2 /\ phi2 <= ACos(a)) => w1 >= w2

C10_Witness ==
    /\ apc = "done"
    /\ phi1 = 0
    /\ phi2 = ACos(a)
    /\ w1 > 0
    /\ w2 = 0

\* ------------------------------------------------------------------------
\* Properties of fasta_rename.py (checked under SpecRename)
\* ------------------------------------------------------------------------
\* The lines of a text, each with its line end
RECURSIVE Lines(_)
Lines(content) ==
    IF content = <<>> THEN <<>>
    ELSE LET line == ReadLine(content, 0)
         IN  <<line>> \o Lines(SubSeq(content, Len(line) + 1, Len(content)))

Contains(text, part) ==
    \E i \in 0..(Len(text) - Len(part)) : SubSeq(text, i + 1, i + Len(part)) = part

\* The record the result should hold for a line of the input
Renamed(line) ==
    IF StartsWithGt(line) /\ Len(Split(line, ",")) >= 2
    THEN RenamedHeader(line, prefix)
    ELSE line

\* C13: after a run without -o the input file holds the renamed records:
\* it has not been emptied, and the record of every line the input held
\* is in it.
C13_InPlaceKeepsRecords ==
    (rnpc = "done" /\ ~Truthy(rename_args.output)) =>
        /\ original # <<>> => disk[InPath] # <<>>
        /\ \A k \in 1..Len(Lines(original)) :
               Contains(disk[InPath], Renamed(Lines(original)[k]))

\* ------------------------------------------------------------------------
\* Properties of the command line of polar_score.py (checked under SpecCli)
\* ------------------------------------------------------------------------
OnlyOneThreshold == args.reference_pdb.given # args.polar_score.given

NothingScoredOrCopied == calls = <<>> /\ visited = <<>> /\ output = <<>>

\* C16: with -d and without -c, once the mode has been chosen: the run is in
\* filter mode exactly if one of -r and -p was given and the other was not;
\* a number given with -p alone, 0.0 included, is the threshold the filter
\* runs with; and a run given both or neither has ended in the parser's
\* error with nothing scored and nothing copied.
C16_ModeSelection ==
    (mpc # "mode" /\ args.design_path.given /\ ~args.calculate.given) =>
        /\ mode = "filter" <=> OnlyOneThreshold
        /\ (args.polar_score.given /\ ~args.reference_pdb.given
                /\ mpc \in {"paths", "filter", "end"}) =>
               polar_threshold = args.polar_score.v
        /\ ~OnlyOneThreshold => (mpc = "usage error" /\ NothingScoredOrCopied)
====
